---- MODULE Spec2Model ----
(***************************************************************************)
(* Tree workflow engine (workflow_engine/engines/tree/engine.py) as a      *)
(* state machine: construction of the execution graph with its cycle       *)
(* check, the seeding of the START nodes, the dispatch of successors and   *)
(* the event loop, up to the execution summary and the tracking callbacks; *)
(* and the service around it (backend/services/workflow_execution.py): the *)
(* registry of background tasks, the background coroutine that runs the    *)
(* engine, and the start and cancel requests.                              *)
(*                                                                         *)
(* Strings are sequences of one-character strings, so that substring       *)
(* tests and concatenations are computed, not assumed.  Optional values    *)
(* are sequences of length 0 (None) or 1.                                  *)
(***************************************************************************)
EXTENDS Integers, Sequences, FiniteSets, TLC

\* ------------------------------------------------------------------ bounds
MaxNodes == 3
MaxEdges == 2
\* execution ids the task registry is called with
MaxExecutions == 2
\* calls of start_task and cancel_task made on the registry
MaxRegistryCalls == 4
\* start and cancel requests made for an execution
MaxRequests == 3
\* the largest node count of a summary the status properties are applied to
MaxCount == 3

NodeIds == 1..MaxNodes

\* ------------------------------------------------------------ basic types
None == <<>>
Some(x) == <<x>>

\* NodeType enum values
NodeTypes == {"start", "process", "leaf"}

\* Values a node executor may return (str(result) of each).
Outputs == {<<"o", "k">>, <<"n", "o">>}
\* str(e) of the exception a node executor may raise.
ErrorText == <<"b", "o", "o", "m">>
\* The outcome of one executor invocation: a returned value or a raise.
Returned(v) == [raised |-> FALSE, value |-> v]
Raised == [raised |-> TRUE, value |-> ErrorText]
Outcomes == {Returned(v) : v \in Outputs} \cup {Raised}

\* ------------------------------------------------------------ strings
IsPrefixAt(needle, hay, at) ==
    \A k \in 1..Len(needle) : hay[at + k - 1] = needle[k]

\* Python's `needle in hay` on strings.
Contains(needle, hay) ==
    \E at \in 1..(Len(hay) - Len(needle) + 1) : IsPrefixAt(needle, hay, at)

LowerChar(c) ==
    CASE c = "O" -> "o"
      [] c = "K" -> "k"
      [] c = "N" -> "n"
      [] OTHER -> c

\* str.lower()
Lower(s) == [k \in 1..Len(s) |-> LowerChar(s[k])]

\* re.sub(r"\s+", "", s)
RECURSIVE StripWhitespace(_)
StripWhitespace(s) ==
    IF s = <<>> THEN <<>>
    ELSE IF Head(s) = " " THEN StripWhitespace(Tail(s))
    ELSE <<Head(s)>> \o StripWhitespace(Tail(s))

\* A pattern re.compile rejects (re.error): here, one holding an unmatched "(".
InvalidRegex(pattern) == \E k \in 1..Len(pattern) : pattern[k] = "("

Digits == {"0", "1", "2", "3", "4", "5", "6", "7", "8", "9"}

RECURSIVE DigitRun(_, _)
\* The number of digits of s from position k on.
DigitRun(s, k) ==
    IF k > Len(s) \/ s[k] \notin Digits THEN 0 ELSE 1 + DigitRun(s, k + 1)

\* What compiling a pattern raises that is no re.error: OverflowError ("the
\* repetition number is too large") for a repetition "{n}" with n >=
\* MAXREPEAT, here one whose number has more digits than MAXREPEAT has.
CompileOverflows(pattern) ==
    \E k \in 1..Len(pattern) : pattern[k] = "{" /\ DigitRun(pattern, k + 1) > 10

\* Condition.check raises: only re.error is caught around re.search.
CheckRaises(condition, node_output) ==
    /\ condition.match_target = "node_output"
    /\ condition.match_type = "regex"
    /\ CompileOverflows(IF condition.case_sensitive THEN condition.match_value
                        ELSE Lower(condition.match_value))

\* Condition.check, when it returns
Check(condition, node_output) ==
    IF condition.match_target # "node_output" THEN FALSE
    ELSE
      LET output_str == IF condition.case_sensitive THEN node_output
                        ELSE Lower(node_output)
          match_value == IF condition.case_sensitive THEN condition.match_value
                         ELSE Lower(condition.match_value)
      IN CASE condition.match_type = "contains" ->
                Contains(match_value, output_str)
           [] condition.match_type = "not_contains" ->
                ~Contains(match_value, output_str)
           [] condition.match_type = "fuzzy" ->
                Contains(StripWhitespace(match_value), StripWhitespace(output_str))
           [] condition.match_type = "regex" ->
                IF InvalidRegex(match_value) THEN FALSE
                ELSE Contains(match_value, output_str)
           [] OTHER -> FALSE

\* The mutant of ConditionChecker that lets every edge fire.
ConditionCheckerAlwaysTrue(condition, node_output) == TRUE

\* TreeWorkflowEngine._default_condition_checker
ConditionChecker(condition, node_output) ==
    IF condition = None THEN TRUE ELSE Check(condition[1], node_output)

\* TreeWorkflowEngine._default_condition_checker raises what check raises.
ConditionCheckerRaises(condition, node_output) ==
    condition # None /\ CheckRaises(condition[1], node_output)

\* The conditions the configurations are drawn from.
Conditions ==
    { [match_target |-> "node_output", match_type |-> "contains",
       match_value |-> <<"o", "k">>, case_sensitive |-> TRUE] }

\* ------------------------------------------------------------ configuration
\* TreeEdge: the dataclass has exactly these three fields.
TreeEdge(from, to, cond) ==
    [from_node |-> from, to_node |-> to, condition |-> cond]

EdgeValues ==
    { TreeEdge(f, t, c) : f \in NodeIds, t \in NodeIds,
                          c \in {None} \cup {Some(x) : x \in Conditions} }

\* TreeNode: name and prompt are derived from the id.
TreeNode(id, type) ==
    [id |-> id,
     name |-> <<"n", ToString(id)>>,
     prompt |-> <<"p", ToString(id)>>,
     node_type |-> type,
     input_config |-> [include_prompt |-> TRUE, include_previous_output |-> TRUE]]

\* Edge lists of at most MaxEdges edges.  The lists drawn are those in
\* non-decreasing (from_node, to_node, condition) order: one list for each
\* multiset of edges.
EdgeRank(e) ==
    ((e.from_node - 1) * MaxNodes + (e.to_node - 1)) * 2
        + (IF e.condition = None THEN 0 ELSE 1)

EdgeLists ==
    { es \in UNION { [1..k -> EdgeValues] : k \in 0..MaxEdges } :
        \A k \in 1..(Len(es) - 1) : EdgeRank(es[k]) <= EdgeRank(es[k + 1]) }

\* The node type of a configuration's node: START for the chosen start
\* nodes; of the others, LEAF for a node without outgoing edge and PROCESS
\* for one with (the engine reads node_type only to tell START from the rest).
TypeOf(id, starts, es) ==
    IF id \in starts THEN "start"
    ELSE IF \E k \in 1..Len(es) : es[k].from_node = id THEN "process"
    ELSE "leaf"

VARIABLES
    nodes,              \* self.nodes: node id -> TreeNode, in id order
    edges,              \* self.edges: list of TreeEdge
    outgoing_edges,     \* self.outgoing_edges: node id -> list of TreeEdge
    node_results,       \* self.node_results
    completed_nodes,    \* self.completed_nodes
    failed_nodes,       \* self.failed_nodes
    running_tasks,      \* self.running_tasks: node ids, in insertion order
    execution_summary,  \* the ExecutionSummary built by execute_workflow, or None
    callbacks,          \* the tracking callbacks delivered so far, in order
    pc,                 \* position of the caller / execute_workflow
    error,              \* the exception that ended construction or execution
    start_idx,          \* position of the seed loop in start_nodes
    invocations,        \* node id -> number of node_executor invocations
    dispatched,         \* the dispatch decisions taken, in order: the node, the
                        \* edge that triggered it, the node's status before it,
                        \* the input assembled for it
    executor_raised,    \* nodes whose executor invocation raised
    callback_raises,    \* whether a call of a tracking callback may raise
    callback_errors,    \* the tracking callbacks whose call raised, in order
    result_data,        \* WorkflowExecution.result_data of the execution
    node_counters,      \* its total_nodes, completed_nodes and failed_nodes
    execution_status,   \* WorkflowExecution.status of the execution
    error_message,      \* WorkflowExecution.error_message of the execution
    task_manager,       \* task_manager.running_tasks: execution id -> task
    tasks,              \* the asyncio tasks created by start_task, in order
    bg_pc,              \* position of _execute_workflow_background
    start_calls,        \* the calls of start_workflow_execution
    cancel_calls,       \* the calls of cancel_execution
    registry_log,       \* the calls of start_task and cancel_task, in order
    cancelled_at,       \* the engine state when CancelledError was thrown, or None
    call,               \* a call of a function of the engine on its own, or None
    returned            \* what that call returned or raised, or None

\* The variables of the service around the engine that no step of the engine
\* changes.
service_vars == <<callback_raises, error_message, task_manager, tasks, bg_pc,
                  start_calls, cancel_calls, registry_log, cancelled_at,
                  call, returned>>

\* The variables of the engine, with the result data its callbacks store.
engine_vars == <<nodes, edges, outgoing_edges, node_results, completed_nodes,
                 failed_nodes, running_tasks, execution_summary, callbacks, pc,
                 error, start_idx, invocations, dispatched, executor_raised,
                 callback_errors, result_data,
                 node_counters>>

vars == <<engine_vars, execution_status, service_vars>>

\* ------------------------------------------------------------ graph model
\* The keys of self.nodes, in dict order.
NodeOrder == [k \in 1..Cardinality(DOMAIN nodes) |-> k]

RECURSIVE EdgesFrom(_, _)
\* The edges of es that leave node_id, in list order.
EdgesFrom(es, node_id) ==
    IF es = <<>> THEN <<>>
    ELSE IF Head(es).from_node = node_id
         THEN <<Head(es)>> \o EdgesFrom(Tail(es), node_id)
         ELSE EdgesFrom(Tail(es), node_id)

\* The adjacency list of _build_execution_graph: dict(defaultdict(list)).
Graph(es) ==
    [f \in {es[k].from_node : k \in 1..Len(es)} |-> EdgesFrom(es, f)]

\* graph.get(node_id, [])
GraphGet(graph, node_id) ==
    IF node_id \in DOMAIN graph THEN graph[node_id] ELSE <<>>

\* dfs of _has_cycle: state 0 unvisited, 1 on the stack, 2 done.
\* The result is "cycle", "none", or "KeyError" (state[node_id] of an id that
\* is not a node), with the state map as the traversal left it.
RECURSIVE Dfs(_, _, _), DfsEdges(_, _, _, _)
\* The mutant of Dfs with a single "visited" mark: a node seen before counts
\* as a back edge, whether it is still on the stack or not.
DfsVisitedIsCycle(graph, node_id, state) ==
    IF node_id \notin DOMAIN state THEN [result |-> "KeyError", state |-> state]
    ELSE IF state[node_id] # 0 THEN [result |-> "cycle", state |-> state]
    ELSE
      LET r == DfsEdges(graph, GraphGet(graph, node_id), 1,
                        [state EXCEPT ![node_id] = 1])
      IN IF r.result # "none" THEN r
         ELSE [result |-> "none", state |-> [r.state EXCEPT ![node_id] = 2]]

Dfs(graph, node_id, state) ==
    IF node_id \notin DOMAIN state THEN [result |-> "KeyError", state |-> state]
    ELSE IF state[node_id] = 1 THEN [result |-> "cycle", state |-> state]
    ELSE IF state[node_id] = 2 THEN [result |-> "none", state |-> state]
    ELSE
      LET r == DfsEdges(graph, GraphGet(graph, node_id), 1,
                        [state EXCEPT ![node_id] = 1])
      IN IF r.result # "none" THEN r
         ELSE [result |-> "none", state |-> [r.state EXCEPT ![node_id] = 2]]

DfsEdges(graph, es, i, state) ==
    IF i > Len(es) THEN [result |-> "none", state |-> state]
    ELSE LET r == Dfs(graph, es[i].to_node, state)
         IN IF r.result # "none" THEN r
            ELSE DfsEdges(graph, es, i + 1, r.state)

RECURSIVE HasCycleFrom(_, _, _, _)
\* The outer loop of _has_cycle over self.nodes.keys().
HasCycleFrom(graph, order, k, state) ==
    IF k > Len(order) THEN "none"
    ELSE IF state[order[k]] = 0
         THEN LET r == Dfs(graph, order[k], state)
              IN IF r.result # "none" THEN r.result
                 ELSE HasCycleFrom(graph, order, k + 1, r.state)
         ELSE HasCycleFrom(graph, order, k + 1, state)

\* TreeWorkflowEngine._has_cycle: "cycle" (True), "none" (False) or "KeyError".
HasCycle(graph) ==
    HasCycleFrom(graph, NodeOrder, 1, [n \in DOMAIN nodes |-> 0])

\* start_nodes of execute_workflow: the START nodes in dict order.
StartNodes == SelectSeq(NodeOrder, LAMBDA n : nodes[n].node_type = "start")

\* ------------------------------------------------------------ dispatch
\* The mutant of CheckAllPrerequisitesCompleted that is satisfied by one
\* completed predecessor.
CheckSomePrerequisiteCompleted(node_id, completed) ==
    LET prerequisites ==
            {edges[k].from_node : k \in {j \in 1..Len(edges) : edges[j].to_node = node_id}}
    IN prerequisites = {} \/ prerequisites \cap completed # {}

\* _check_all_prerequisites_completed, against a given completed set.
CheckAllPrerequisitesCompleted(node_id, completed) ==
    LET prerequisites ==
            {edges[k].from_node : k \in {j \in 1..Len(edges) : edges[j].to_node = node_id}}
    IN prerequisites \ completed = {}

RECURSIVE Dedup(_, _)
\* "去重保持顺序": drop the later occurrences.
Dedup(s, seen) ==
    IF s = <<>> THEN <<>>
    ELSE IF Head(s) \in seen THEN Dedup(Tail(s), seen)
    ELSE <<Head(s)>> \o Dedup(Tail(s), seen \cup {Head(s)})

\* _get_all_completed_predecessors
GetAllCompletedPredecessors(node_id, completed) ==
    LET hits == SelectSeq(edges, LAMBDA e : e.to_node = node_id /\ e.from_node \in completed)
    IN Dedup([k \in 1..Len(hits) |-> hits[k].from_node], {})

RECURSIVE CombineParts(_, _)
CombineParts(ids, results) ==
    IF ids = <<>> THEN <<>>
    ELSE LET part == <<"[">> \o nodes[Head(ids)].name \o <<"]", ":", " ">> \o results[Head(ids)]
         IN IF Tail(ids) = <<>> THEN part
            ELSE part \o <<" ", "|", " ">> \o CombineParts(Tail(ids), results)

\* _combine_predecessor_outputs
CombinePredecessorOutputs(ids, results) ==
    IF ids = <<>> THEN <<>>
    ELSE IF Len(ids) = 1 THEN results[ids[1]]
    ELSE CombineParts(ids, results)

\* _prepare_node_input: reads edge.input_config.  A TreeEdge has no such
\* attribute, so the read raises AttributeError.
PrepareNodeInput(node_id, edge, completed, results) ==
    IF "input_config" \notin DOMAIN edge
    THEN [raised |-> TRUE, prompt |-> None, previous_output |-> None]
    ELSE
      LET input_config == edge.input_config
          all_predecessors == GetAllCompletedPredecessors(node_id, completed)
      IN [raised |-> FALSE,
          prompt |-> IF input_config.include_prompt
                     THEN Some(nodes[node_id].prompt) ELSE None,
          previous_output |->
              IF input_config.include_previous_output /\ all_predecessors # <<>>
              THEN Some(CombinePredecessorOutputs(all_predecessors, results))
              ELSE None]

\* The part of the engine state the dispatcher reads and writes, with the
\* execution record the tracking callbacks write to.
EngineState ==
    [completed |-> completed_nodes, failed |-> failed_nodes,
     results |-> node_results, running |-> running_tasks,
     invocations |-> invocations, dispatched |-> dispatched,
     callbacks |-> callbacks, callback_errors |-> callback_errors,
     result_data |-> result_data, node_counters |-> node_counters,
     raised |-> FALSE, error |-> ""]

InSeq(x, s) == \E k \in 1..Len(s) : s[k] = x

\* get_node_status on the dispatcher's view of the state.
StatusIn(node_id, st) ==
    IF node_id \in st.completed THEN "completed"
    ELSE IF node_id \in st.failed THEN "failed"
    ELSE IF InSeq(node_id, st.running) THEN "running"
    ELSE "pending"

\* The mutant of AlreadyStarted that forgets the completed nodes.
AlreadyStartedRunningOnly(target_node_id, st) ==
    InSeq(target_node_id, st.running)

\* "避免重复执行": the target is in running_tasks or in completed_nodes.
AlreadyStarted(target_node_id, st) ==
    InSeq(target_node_id, st.running) \/ target_node_id \in st.completed

RECURSIVE TriggerFrom(_, _, _)
\* The loop of _try_trigger_next_nodes over the outgoing edges, from edge i.
\* A raise inside it leaves the loop with st.raised set.
TriggerFrom(completed_node_id, i, st) ==
    LET out == GraphGet(outgoing_edges, completed_node_id) IN
    IF i > Len(out) THEN st
    ELSE
      LET edge == out[i]
          target_node_id == edge.to_node
      IN IF ~CheckAllPrerequisitesCompleted(target_node_id, st.completed)
         THEN TriggerFrom(completed_node_id, i + 1, st)
         ELSE IF edge.condition # None
                 /\ ConditionCheckerRaises(edge.condition, st.results[completed_node_id])
         THEN [st EXCEPT !.raised = TRUE, !.error = "OverflowError"]
         ELSE IF edge.condition # None
                 /\ ~ConditionChecker(edge.condition, st.results[completed_node_id])
         THEN TriggerFrom(completed_node_id, i + 1, st)
         ELSE IF AlreadyStarted(target_node_id, st)
         THEN TriggerFrom(completed_node_id, i + 1, st)
         ELSE
           LET input_data == PrepareNodeInput(target_node_id, edge, st.completed, st.results)
               decided == [st EXCEPT !.dispatched =
                               Append(@, [node |-> target_node_id, edge |-> edge,
                                          status |-> StatusIn(target_node_id, st),
                                          delivered |-> st.callbacks,
                                          input |-> input_data])]
           IN IF input_data.raised
              THEN [decided EXCEPT !.raised = TRUE, !.error = "AttributeError"]
              ELSE TriggerFrom(completed_node_id, i + 1,
                     [decided EXCEPT
                        !.running = Append(@, target_node_id),
                        !.invocations[target_node_id] = @ + 1])

\* TreeWorkflowEngine._try_trigger_next_nodes
TryTriggerNextNodes(completed_node_id, st) == TriggerFrom(completed_node_id, 1, st)

\* ------------------------------------------------------------ state updates
SetResult(results, node_id, value) ==
    [x \in DOMAIN results \cup {node_id} |->
        IF x = node_id THEN value ELSE results[x]]

\* "ERROR: "
ErrorPrefix == <<"E", "R", "R", "O", "R", ":", " ">>

\* The mutant of MarkNodeCompleted that puts the node into failed_nodes too.
MarkNodeCompletedAndFailed(st, node_id, result) ==
    [st EXCEPT !.completed = @ \cup {node_id},
               !.failed = @ \cup {node_id},
               !.results = SetResult(@, node_id, result)]

\* BaseWorkflowEngine._mark_node_completed
MarkNodeCompleted(st, node_id, result) ==
    [st EXCEPT !.completed = @ \cup {node_id},
               !.results = SetResult(@, node_id, result)]

\* BaseWorkflowEngine._mark_node_failed
MarkNodeFailed(st, node_id, err) ==
    [st EXCEPT !.failed = @ \cup {node_id},
               !.results = SetResult(@, node_id, ErrorPrefix \o err)]

\* One delivered tracking callback; node is 0 for the execution-level ones.
Callback(name, node_id) == [name |-> name, node |-> node_id]

\* The mutant of Catches in which no except clause catches anything.
CatchesNothing(handler, exc) == FALSE

\* The mutant of Catches in which every except clause catches everything, as
\* a bare except does.
CatchesEverything(handler, exc) == TRUE

\* `except handler` catches an exception of class exc.  CancelledError
\* derives from BaseException, not from Exception; every other exception of
\* the model derives from Exception.
Catches(handler, exc) ==
    \/ handler = exc
    \/ handler = "BaseException"
    \/ handler = "Exception" /\ exc # "CancelledError"

\* The try/except around the call of a tracking callback: the callback is
\* called; when it raises, `except Exception` catches the error and the
\* engine goes on.  st.raised is set when the error is not caught.
CallTrackingCallback(st, name, node_id, raises) ==
    LET called == [st EXCEPT !.callbacks = Append(@, Callback(name, node_id))]
    IN IF ~raises THEN called
       ELSE LET failed == [called EXCEPT !.callback_errors =
                                            Append(@, Callback(name, node_id))]
            IN IF Catches("Exception", "Exception") THEN failed
               ELSE [failed EXCEPT !.raised = TRUE, !.error = "Exception"]

\* WorkflowExecutionService._update_node_result: the record of the node in
\* result_data (the timestamp is left out).
UpdateNodeResult(data, node_id, result, is_success) ==
    LET record == [result |-> result, success |-> is_success]
    IN IF data = None
       THEN Some([x \in {node_id} |-> record])
       ELSE Some([x \in DOMAIN data[1] \cup {node_id} |->
                    IF x = node_id THEN record ELSE data[1][x]])

\* create_execution: the counters of a new WorkflowExecution of a workflow
\* of total_nodes nodes.
CreateExecution(total_nodes) ==
    [total_nodes |-> total_nodes, completed_nodes |-> 0, failed_nodes |-> 0]

\* The mutant of UpdateNodeCounters that counts every report as completed and
\* as failed.
UpdateNodeCountersBoth(counters, is_success) ==
    [counters EXCEPT !.completed_nodes = @ + 1, !.failed_nodes = @ + 1]

\* The mutant of UpdateNodeCounters that counts a report twice.
UpdateNodeCountersTwice(counters, is_success) ==
    [counters EXCEPT
        !.completed_nodes = @ + (IF is_success THEN 2 ELSE 0),
        !.failed_nodes = @ + (IF is_success THEN 0 ELSE 2)]

\* WorkflowExecutionService._update_node_result: new_completed and new_failed
UpdateNodeCounters(counters, is_success) ==
    [counters EXCEPT
        !.completed_nodes = @ + (IF is_success THEN 1 ELSE 0),
        !.failed_nodes = @ + (IF is_success THEN 0 ELSE 1)]

\* The mutant of CallNodeCallback in which the callback is not called.
CallNodeCallbackDropped(st, name, node_id, raises) == st

\* _call_node_completed_callback / _call_node_failed_callback, the callbacks
\* being on_node_completed / on_node_failed of _execute_workflow_background
\* when they do not raise.  on_node_failed is given the exception: str(error)
\* is the recorded result without its "ERROR: " prefix.
CallNodeCallback(st, name, node_id, raises) ==
    LET called == CallTrackingCallback(st, name, node_id, raises)
        result == st.results[node_id]
    IN IF raises THEN called
       ELSE IF name = "on_node_completed"
       THEN [called EXCEPT !.result_data =
                UpdateNodeResult(@, node_id, result, TRUE),
                           !.node_counters = UpdateNodeCounters(@, TRUE)]
       ELSE [called EXCEPT !.result_data =
                UpdateNodeResult(@, node_id,
                    SubSeq(result, Len(ErrorPrefix) + 1, Len(result)), FALSE),
                           !.node_counters = UpdateNodeCounters(@, FALSE)]

\* ExecutionSummary as execute_workflow builds it: completed_count,
\* total_count and results are passed, the other fields keep their defaults.
ExecutionSummary(completed_count, total_count, results) ==
    [completed_count |-> completed_count,
     failed_count |-> 0,
     skipped_count |-> 0,
     total_count |-> total_count,
     results |-> results,
     error_message |-> None]

\* ExecutionSummary.is_complete
IsComplete(summary) ==
    /\ summary.failed_count = 0
    /\ summary.error_message = None
    /\ summary.completed_count > 0

\* The mutant of IsFailed that looks at failed_count only.
IsFailedCountOnly(summary) == summary.failed_count > 0

\* ExecutionSummary.is_failed
IsFailed(summary) ==
    summary.failed_count > 0 \/ summary.error_message # None

\* BaseWorkflowEngine.get_node_status
GetNodeStatus(node_id) == StatusIn(node_id, EngineState)

\* ------------------------------------------------------------ event loop
RECURSIVE MarkFinished(_, _, _, _)
\* First for-loop of one pass of _run_execution_loop: every task that is done
\* is awaited, its node marked and its callback called, in dict order.
MarkFinished(ids, outcome, cb_raises, st) ==
    IF ids = <<>> \/ st.raised THEN st
    ELSE
      LET node_id == Head(ids)
          o == outcome[node_id]
      IN IF o.raised
         THEN MarkFinished(Tail(ids), outcome, cb_raises,
                CallNodeCallback(MarkNodeFailed(st, node_id, o.value),
                                 "on_node_failed", node_id, cb_raises[node_id]))
         ELSE MarkFinished(Tail(ids), outcome, cb_raises,
                CallNodeCallback(MarkNodeCompleted(st, node_id, o.value),
                                 "on_node_completed", node_id, cb_raises[node_id]))

RECURSIVE TriggerFinished(_, _)
\* Second for-loop: the finished tasks are deleted and their successors tried.
TriggerFinished(ids, st) ==
    IF ids = <<>> \/ st.raised THEN st
    ELSE
      LET node_id == Head(ids)
          removed == [st EXCEPT !.running = SelectSeq(@, LAMBDA n : n # node_id)]
      IN TriggerFinished(Tail(ids), TryTriggerNextNodes(node_id, removed))

\* One pass of the while loop of _run_execution_loop, the tasks of `done`
\* being done with the given outcomes.
LoopPass(done, outcome, cb_raises, st) ==
    LET completed_task_ids == SelectSeq(st.running, LAMBDA n : n \in done)
    IN TriggerFinished(completed_task_ids,
                       MarkFinished(completed_task_ids, outcome, cb_raises, st))

\* ------------------------------------------------------------ behaviour
\* The outcomes of a call of a tracking callback: it returns, or it raises.
CallbackOutcomes == IF callback_raises THEN {FALSE, TRUE} ELSE {FALSE}

\* The state after TreeWorkflowEngine(config, tracking_callbacks) was given
\* the configuration, before __init__ builds the graph.
InitConfig(n, starts, es, faulty) ==
    /\ nodes = [i \in 1..n |-> TreeNode(i, TypeOf(i, starts, es))]
    /\ edges = es
    /\ outgoing_edges = <<>>
    /\ node_results = <<>>
    /\ completed_nodes = {}
    /\ failed_nodes = {}
    /\ running_tasks = <<>>
    /\ execution_summary = None
    /\ callbacks = <<>>
    /\ pc = "config"
    /\ error = ""
    /\ start_idx = 0
    /\ invocations = [i \in 1..n |-> 0]
    /\ dispatched = <<>>
    /\ executor_raised = {}
    /\ callback_raises = faulty
    /\ callback_errors = <<>>
    /\ result_data = None
    /\ node_counters = CreateExecution(n)

\* No function of the engine is called on its own.
NoCall == call = None /\ returned = None

\* The service around an engine that is called directly: no task, no
\* request, the execution record RUNNING.
DirectCall ==
    /\ execution_status = "RUNNING"
    /\ error_message = None
    /\ task_manager = <<>>
    /\ tasks = <<>>
    /\ bg_pc = "engine"
    /\ start_calls = <<>>
    /\ cancel_calls = <<>>
    /\ registry_log = <<>>
    /\ cancelled_at = None

Init ==
    \E n \in 1..MaxNodes :
      \E starts \in SUBSET (1..n) :
        \E es \in EdgeLists :
          InitConfig(n, starts, es, FALSE) /\ DirectCall /\ NoCall

\* The engine state variables take the values of st.
Commit(st) ==
    /\ completed_nodes' = st.completed
    /\ failed_nodes' = st.failed
    /\ node_results' = st.results
    /\ running_tasks' = st.running
    /\ invocations' = st.invocations
    /\ dispatched' = st.dispatched
    /\ callbacks' = st.callbacks
    /\ callback_errors' = st.callback_errors
    /\ result_data' = st.result_data
    /\ node_counters' = st.node_counters

\* TreeWorkflowEngine.__init__ -> _initialize_from_config -> _build_execution_graph
Construct ==
    /\ pc = "config"
    /\ LET graph == Graph(edges)
           found == HasCycle(graph)
       IN IF found = "cycle"
          THEN /\ pc' = "rejected"
               /\ error' = "TreeCycleError"
               /\ UNCHANGED outgoing_edges
          ELSE IF found = "KeyError"
          THEN /\ pc' = "rejected"
               /\ error' = "KeyError"
               /\ UNCHANGED outgoing_edges
          ELSE /\ pc' = "constructed"
               /\ outgoing_edges' = graph
               /\ UNCHANGED error
    /\ UNCHANGED <<nodes, edges, node_results, completed_nodes, failed_nodes,
                   running_tasks, execution_summary, callbacks, start_idx,
                   invocations, dispatched, executor_raised, callback_errors,
                   result_data, node_counters, execution_status,
                   service_vars>>

\* execute_workflow up to the call of on_execution_start
ExecuteWorkflow ==
    /\ pc = "constructed"
    /\ IF StartNodes = <<>>
       THEN pc' = "raised" /\ error' = "ValueError"
       ELSE pc' = "start_callback" /\ UNCHANGED error
    /\ UNCHANGED <<nodes, edges, outgoing_edges, node_results, completed_nodes,
                   failed_nodes, running_tasks, execution_summary, callbacks,
                   start_idx, invocations, dispatched, executor_raised,
                   callback_errors, result_data, node_counters,
                   execution_status, service_vars>>

\* on_execution_start is called and ends; the seed loop begins
ExecutionStartCallback ==
    /\ pc = "start_callback"
    /\ \E raises \in CallbackOutcomes :
         LET st == CallTrackingCallback(EngineState, "on_execution_start", 0, raises)
         IN /\ Commit(st)
            /\ IF st.raised
               THEN pc' = "raised" /\ error' = st.error /\ UNCHANGED start_idx
               ELSE pc' = "seed" /\ start_idx' = 1 /\ UNCHANGED error
    /\ UNCHANGED <<nodes, edges, outgoing_edges, execution_summary,
                   executor_raised, execution_status, service_vars>>

\* seed loop: await self.node_executor(start_node_id, NodeInputData())
SeedInvoke ==
    /\ pc = "seed"
    /\ start_idx <= Len(StartNodes)
    /\ invocations' = [invocations EXCEPT ![StartNodes[start_idx]] = @ + 1]
    /\ pc' = "seed_await"
    /\ UNCHANGED <<nodes, edges, outgoing_edges, node_results, completed_nodes,
                   failed_nodes, running_tasks, execution_summary, callbacks,
                   error, start_idx, dispatched, executor_raised,
                   callback_errors, result_data, node_counters,
                   execution_status, service_vars>>

\* the executor of the START node returns: the node is marked completed and
\* on_node_completed is called
SeedExecutorReturns ==
    /\ pc = "seed_await"
    /\ \E result \in Outputs :
         Commit(MarkNodeCompleted(EngineState, StartNodes[start_idx], result))
    /\ pc' = "seed_callback"
    /\ UNCHANGED <<nodes, edges, outgoing_edges, execution_summary, error,
                   start_idx, executor_raised, execution_status, service_vars>>

\* the executor of the START node raises: nothing in the seed loop catches it
SeedExecutorRaises ==
    /\ pc = "seed_await"
    /\ executor_raised' = executor_raised \cup {StartNodes[start_idx]}
    /\ pc' = "raised"
    /\ error' = "NodeExecutionError"
    /\ UNCHANGED <<nodes, edges, outgoing_edges, node_results, completed_nodes,
                   failed_nodes, running_tasks, execution_summary, callbacks,
                   start_idx, invocations, dispatched, callback_errors,
                   result_data, node_counters, execution_status,
                   service_vars>>

\* on_node_completed ends; _try_trigger_next_nodes(start_node_id)
SeedTrigger ==
    /\ pc = "seed_callback"
    /\ \E raises \in CallbackOutcomes :
         LET node_id == StartNodes[start_idx]
             called == CallNodeCallback(EngineState, "on_node_completed",
                                        node_id, raises)
             st == IF called.raised THEN called
                   ELSE TryTriggerNextNodes(node_id, called)
         IN /\ Commit(st)
            /\ IF st.raised
               THEN pc' = "raised" /\ error' = st.error /\ UNCHANGED start_idx
               ELSE pc' = "seed" /\ start_idx' = start_idx + 1 /\ UNCHANGED error
    /\ UNCHANGED <<nodes, edges, outgoing_edges, execution_summary,
                   executor_raised, execution_status, service_vars>>

\* the seed loop is over: _run_execution_loop
SeedDone ==
    /\ pc = "seed"
    /\ start_idx > Len(StartNodes)
    /\ pc' = "loop"
    /\ UNCHANGED <<nodes, edges, outgoing_edges, node_results, completed_nodes,
                   failed_nodes, running_tasks, execution_summary, callbacks,
                   error, start_idx, invocations, dispatched, executor_raised,
                   callback_errors, result_data, node_counters,
                   execution_status, service_vars>>

\* _run_execution_loop: one evaluation of `while self.running_tasks` with the
\* pass it guards; on exit execute_workflow builds the summary and calls
\* on_execution_finished
RunExecutionLoop ==
    /\ pc = "loop"
    /\ IF running_tasks = <<>>
       THEN /\ execution_summary' =
                 Some(ExecutionSummary(Cardinality(completed_nodes),
                                       Cardinality(DOMAIN nodes), node_results))
            /\ pc' = "finished_callback"
            /\ UNCHANGED <<node_results, completed_nodes, failed_nodes,
                           running_tasks, callbacks, error, invocations,
                           dispatched, executor_raised, callback_errors,
                           result_data, node_counters>>
       ELSE \E done \in SUBSET {running_tasks[k] : k \in 1..Len(running_tasks)} :
              \E outcome \in [done -> Outcomes] :
                \E cb_raises \in [done -> CallbackOutcomes] :
                  LET st == LoopPass(done, outcome, cb_raises, EngineState)
                  IN /\ Commit(st)
                     /\ executor_raised' =
                          executor_raised \cup {n \in done : outcome[n].raised}
                     /\ IF st.raised
                        THEN pc' = "raised" /\ error' = st.error
                        ELSE pc' = "loop" /\ UNCHANGED error
                     /\ UNCHANGED execution_summary
    /\ UNCHANGED <<nodes, edges, outgoing_edges, start_idx, execution_status,
                   service_vars>>

\* summary.results as on_execution_finished stores it in result_data: the
\* entry of a node is its bare result, with no success flag and no
\* timestamp, written here as a record that has the result field only.
SummaryResultData(summary) ==
    Some([x \in DOMAIN summary.results |-> [result |-> summary.results[x]]])

\* on_execution_finished is called and ends; execute_workflow returns the
\* summary.  The callback of _execute_workflow_background stores the final
\* status and summary.results in the execution record.
ExecutionFinishedCallback ==
    /\ pc = "finished_callback"
    /\ \E raises \in CallbackOutcomes :
         LET st == CallTrackingCallback(EngineState, "on_execution_finished", 0, raises)
             summary == execution_summary[1]
         IN /\ IF raises
               THEN Commit(st) /\ UNCHANGED execution_status
               ELSE /\ Commit([st EXCEPT !.result_data = SummaryResultData(summary)])
                    /\ execution_status' =
                          IF IsComplete(summary) THEN "COMPLETED" ELSE "FAILED"
            /\ IF st.raised
               THEN pc' = "raised" /\ error' = st.error
               ELSE pc' = "returned" /\ UNCHANGED error
    /\ UNCHANGED <<nodes, edges, outgoing_edges, execution_summary, start_idx,
                   executor_raised, service_vars>>

Next ==
    \/ Construct
    \/ ExecuteWorkflow
    \/ ExecutionStartCallback
    \/ SeedInvoke
    \/ SeedExecutorReturns
    \/ SeedExecutorRaises
    \/ SeedTrigger
    \/ SeedDone
    \/ RunExecutionLoop
    \/ ExecutionFinishedCallback

Spec == Init /\ [][Next]_vars

\* The engine with tracking callbacks that may raise, on the configurations
\* of fewer than MaxNodes nodes and fewer than MaxEdges edges.
SmallEdgeLists == {es \in EdgeLists : Len(es) < MaxEdges}

InitFaulty ==
    \E n \in 1..(MaxNodes - 1) :
      \E starts \in SUBSET (1..n) :
        \E es \in SmallEdgeLists :
          InitConfig(n, starts, es, TRUE) /\ DirectCall /\ NoCall

SpecFaulty == InitFaulty /\ [][Next]_vars

\* ------------------------------------------------------------ task registry
ExecutionIds == 1..MaxExecutions

\* asyncio.create_task(coroutine): a task that is not done.  state is
\* "pending", or "finished" (result), "failed" (exception) or "cancelled" when
\* done; must_cancel is a cancellation requested and not yet thrown into the
\* coroutine; cleaned tells that the done callback has run.
NewTask(execution_id) ==
    [execution_id |-> execution_id, state |-> "pending",
     must_cancel |-> FALSE, cleaned |-> FALSE]

\* The mutant of TaskCancel that requests nothing.
TaskCancelIgnored(task) == task

\* task.cancel(): no effect on a task that is done.
TaskCancel(task) ==
    IF task.state # "pending" THEN task ELSE [task EXCEPT !.must_cancel = TRUE]

\* BackgroundTaskManager.is_running
IsRunning(tm, execution_id) == execution_id \in DOMAIN tm

\* The mutant of StartTask without the "already running" check.
StartTaskUnchecked(tm, ts, execution_id) ==
    [task_manager |-> [x \in DOMAIN tm \cup {execution_id} |->
                          IF x = execution_id THEN Len(ts) + 1 ELSE tm[x]],
     tasks |-> Append(ts, NewTask(execution_id)),
     started |-> TRUE]

\* BackgroundTaskManager.start_task
StartTask(tm, ts, execution_id) ==
    IF execution_id \in DOMAIN tm
    THEN [task_manager |-> tm, tasks |-> ts, started |-> FALSE]
    ELSE [task_manager |-> [x \in DOMAIN tm \cup {execution_id} |->
                               IF x = execution_id THEN Len(ts) + 1 ELSE tm[x]],
          tasks |-> Append(ts, NewTask(execution_id)),
          started |-> TRUE]

\* BackgroundTaskManager.cancel_task
CancelTask(tm, ts, execution_id) ==
    IF execution_id \in DOMAIN tm
    THEN [tasks |-> [ts EXCEPT ![tm[execution_id]] = TaskCancel(@)],
          result |-> TRUE]
    ELSE [tasks |-> ts, result |-> FALSE]

\* The mutant of CleanupTask that leaves the entry in place.
CleanupTaskKeeps(tm, execution_id) == tm

\* BackgroundTaskManager._cleanup_task: the entry of the execution id is
\* deleted (before task.exception() is looked at).
CleanupTask(tm, execution_id) ==
    [x \in DOMAIN tm \ {execution_id} |-> tm[x]]

\* The record of one call of start_task or cancel_task: whether an entry
\* existed, whether its task was still pending, whether a cancellation of it
\* was already requested, what the call returned and whether it changed the
\* registry or a task.
LogEntry(op, execution_id, result, tm_after, ts_after) ==
    LET registered == execution_id \in DOMAIN task_manager
        task == tasks[task_manager[execution_id]]
    IN [op |-> op, execution_id |-> execution_id,
        registered |-> registered,
        live |-> registered /\ task.state = "pending",
        cancel_requested |->
            registered /\ \E k \in 1..Len(registry_log) :
                              /\ registry_log[k].op = "cancel_task"
                              /\ registry_log[k].task = task_manager[execution_id]
                              /\ registry_log[k].result,
        task |-> IF registered THEN task_manager[execution_id] ELSE 0,
        result |-> result,
        changed |-> (tm_after # task_manager \/ ts_after # tasks)]

\* The done callback of a task that is done runs: _cleanup_task
TaskDoneCallback ==
    /\ \E t \in 1..Len(tasks) :
         /\ tasks[t].state # "pending"
         /\ ~tasks[t].cleaned
         /\ task_manager' = CleanupTask(task_manager, tasks[t].execution_id)
         /\ tasks' = [tasks EXCEPT ![t].cleaned = TRUE]
    /\ UNCHANGED <<engine_vars, execution_status, callback_raises, error_message,
                   bg_pc,
                   start_calls, cancel_calls, registry_log, cancelled_at,
                   call, returned>>

\* The registry alone, called by any caller with any execution id, the
\* coroutines of the tasks ending as they will.
NoRequest ==
    /\ execution_status = "PENDING"
    /\ error_message = None
    /\ task_manager = <<>>
    /\ tasks = <<>>
    /\ bg_pc = "none"
    /\ start_calls = <<>>
    /\ cancel_calls = <<>>
    /\ registry_log = <<>>
    /\ cancelled_at = None

InitRegistry == InitConfig(1, {1}, <<>>, FALSE) /\ NoRequest /\ NoCall

\* task_manager.start_task(execution_id, coroutine)
RegistryStartTask ==
    /\ Len(registry_log) < MaxRegistryCalls
    /\ \E execution_id \in ExecutionIds :
         LET r == StartTask(task_manager, tasks, execution_id)
         IN /\ task_manager' = r.task_manager
            /\ tasks' = r.tasks
            /\ registry_log' = Append(registry_log,
                   LogEntry("start_task", execution_id, r.started,
                            r.task_manager, r.tasks))
    /\ UNCHANGED <<engine_vars, execution_status, callback_raises, error_message,
                   bg_pc,
                   start_calls, cancel_calls, cancelled_at,
                   call, returned>>

\* task_manager.cancel_task(execution_id)
RegistryCancelTask ==
    /\ Len(registry_log) < MaxRegistryCalls
    /\ \E execution_id \in ExecutionIds :
         LET r == CancelTask(task_manager, tasks, execution_id)
         IN /\ tasks' = r.tasks
            /\ registry_log' = Append(registry_log,
                   LogEntry("cancel_task", execution_id, r.result,
                            task_manager, r.tasks))
    /\ UNCHANGED <<engine_vars, execution_status, callback_raises, error_message,
                   bg_pc,
                   start_calls, cancel_calls, cancelled_at, task_manager,
                   call, returned>>

\* The ways the coroutine of a task may end: with a result or an exception,
\* or cancelled when a cancellation was requested.
TaskEndings(task) ==
    IF task.must_cancel THEN {"cancelled", "finished", "failed"}
    ELSE {"finished", "failed"}

\* the coroutine of a pending task ends
TaskEnds ==
    /\ \E t \in 1..Len(tasks) :
         /\ tasks[t].state = "pending"
         /\ \E ending \in TaskEndings(tasks[t]) :
              tasks' = [tasks EXCEPT ![t].state = ending, ![t].must_cancel = FALSE]
    /\ UNCHANGED <<engine_vars, execution_status, callback_raises, error_message,
                   bg_pc,
                   start_calls, cancel_calls, cancelled_at, task_manager,
                   registry_log,
                   call, returned>>

NextRegistry ==
    \/ RegistryStartTask
    \/ RegistryCancelTask
    \/ TaskEnds
    \/ TaskDoneCallback

SpecRegistry == InitRegistry /\ [][NextRegistry]_vars

\* The event loop runs the done callback of a task that is done.
FairSpecRegistry == SpecRegistry /\ WF_vars(TaskDoneCallback)

\* ------------------------------------------------------------ service
\* The execution the requests are about: the first execution id.
TheExecution == CHOOSE e \in ExecutionIds : \A x \in ExecutionIds : e <= x

\* The workflows of the execution: one START node; two START nodes; a START
\* node with a successor; two START nodes, the second with a successor; two
\* nodes on a cycle; a node that is no START node.
ServiceConfigs ==
    { [n |-> 1, starts |-> {1}, es |-> <<>>],
      [n |-> 2, starts |-> {1, 2}, es |-> <<>>],
      [n |-> 2, starts |-> {1}, es |-> <<TreeEdge(1, 2, None)>>],
      [n |-> 3, starts |-> {1, 2}, es |-> <<TreeEdge(2, 3, None)>>],
      [n |-> 2, starts |-> {1}, es |-> <<TreeEdge(1, 2, None), TreeEdge(2, 1, None)>>],
      [n |-> 1, starts |-> {}, es |-> <<>>] }

InitService ==
    \E cfg \in ServiceConfigs :
        InitConfig(cfg.n, cfg.starts, cfg.es, FALSE) /\ NoRequest /\ NoCall

\* The task of the background run, and whether a cancellation of it is
\* requested and not yet thrown into its coroutine.
CurrentTask == Len(tasks)
MustCancel == tasks # <<>> /\ tasks[CurrentTask].must_cancel

\* The engine is suspended in an await: in the executor of a START node, in
\* on_node_completed or on_execution_finished (which await the database), or
\* in the sleep of the event loop.  on_execution_start awaits nothing.
EngineSuspended ==
    \/ pc \in {"seed_await", "seed_callback", "finished_callback"}
    \/ pc = "loop" /\ running_tasks # <<>>

\* The background task becomes done.
TaskBecomes(state) ==
    tasks' = [tasks EXCEPT ![CurrentTask].state = state,
                           ![CurrentTask].must_cancel = FALSE]

\* start_workflow_execution: get_execution_by_id has read the record.  Its
\* only caller is run_workflow, which calls it once, for the execution it has
\* just created.
StartRequest ==
    /\ start_calls = <<>>
    /\ Len(start_calls) + Len(cancel_calls) < MaxRequests
    /\ start_calls' = Append(start_calls,
          [pc |-> "read", status |-> execution_status, result |-> ""])
    /\ UNCHANGED <<engine_vars, execution_status, callback_raises, error_message,
                   task_manager,
                   tasks, bg_pc, cancel_calls, registry_log, cancelled_at,
                   call, returned>>

\* start_workflow_execution: the checks of the status read and of
\* is_running, then start_task
StartCheck ==
    /\ \E i \in 1..Len(start_calls) :
         /\ start_calls[i].pc = "read"
         /\ IF \/ start_calls[i].status # "PENDING"
               \/ IsRunning(task_manager, TheExecution)
            THEN /\ start_calls' = [start_calls EXCEPT ![i].pc = "done",
                                                       ![i].result = "400"]
                 /\ UNCHANGED <<task_manager, tasks, bg_pc, registry_log>>
            ELSE LET r == StartTask(task_manager, tasks, TheExecution)
                 IN /\ task_manager' = r.task_manager
                    /\ tasks' = r.tasks
                    /\ bg_pc' = IF r.started THEN "created" ELSE bg_pc
                    /\ registry_log' = Append(registry_log,
                          LogEntry("start_task", TheExecution, r.started,
                                   r.task_manager, r.tasks))
                    /\ start_calls' = [start_calls EXCEPT ![i].pc = "done",
                                                          ![i].result = "started"]
    /\ UNCHANGED <<engine_vars, execution_status, callback_raises, error_message,
                   cancel_calls, cancelled_at,
                   call, returned>>

\* cancel_execution: get_execution_by_id has read the record
CancelRequest ==
    /\ Len(start_calls) + Len(cancel_calls) < MaxRequests
    /\ cancel_calls' = Append(cancel_calls,
          [pc |-> "read", status |-> execution_status, cancelled |-> FALSE,
           result |-> ""])
    /\ UNCHANGED <<engine_vars, execution_status, callback_raises, error_message,
                   task_manager,
                   tasks, bg_pc, start_calls, registry_log, cancelled_at,
                   call, returned>>

\* cancel_execution: the check of the status read, then cancel_task
CancelCheck ==
    /\ \E j \in 1..Len(cancel_calls) :
         /\ cancel_calls[j].pc = "read"
         /\ IF cancel_calls[j].status \notin {"PENDING", "RUNNING"}
            THEN /\ cancel_calls' = [cancel_calls EXCEPT ![j].pc = "done",
                                                         ![j].result = "400"]
                 /\ UNCHANGED <<tasks, registry_log>>
            ELSE LET r == CancelTask(task_manager, tasks, TheExecution)
                 IN /\ tasks' = r.tasks
                    /\ registry_log' = Append(registry_log,
                          LogEntry("cancel_task", TheExecution, r.result,
                                   task_manager, r.tasks))
                    /\ cancel_calls' = [cancel_calls EXCEPT
                                           ![j].pc = "update",
                                           ![j].cancelled = r.result]
    /\ UNCHANGED <<engine_vars, execution_status, callback_raises, error_message,
                   task_manager,
                   bg_pc, start_calls, cancelled_at,
                   call, returned>>

\* cancel_execution: the record is updated to CANCELLED and True is returned.
\* The update is awaited after cancel_task, and the CancelledError that
\* task.cancel() scheduled is thrown into the task before any awaited
\* database answer resumes a coroutine.
CancelUpdate ==
    /\ ~MustCancel
    /\ \E j \in 1..Len(cancel_calls) :
         /\ cancel_calls[j].pc = "update"
         /\ cancel_calls' = [cancel_calls EXCEPT ![j].pc = "done",
                                                ![j].result = "True"]
    /\ execution_status' = "CANCELLED"
    /\ UNCHANGED <<engine_vars, callback_raises, error_message, task_manager, tasks,
                   bg_pc,
                   start_calls, registry_log, cancelled_at,
                   call, returned>>

\* the first step of the task of _execute_workflow_background: the coroutine
\* runs up to the await of the RUNNING update; with a cancellation requested
\* before, CancelledError is thrown before the coroutine has run at all, and
\* the task is done with none of its body executed ("not_run")
BackgroundFirstStep ==
    /\ bg_pc = "created"
    /\ IF MustCancel
       THEN TaskBecomes("cancelled") /\ bg_pc' = "not_run"
       ELSE bg_pc' = "set_running" /\ UNCHANGED tasks
    /\ UNCHANGED <<engine_vars, execution_status, callback_raises, error_message,
                   task_manager,
                   start_calls, cancel_calls, registry_log, cancelled_at,
                   call, returned>>

\* TreeWorkflowEngine(tree_config, tracking_callbacks) of a background run: a
\* new engine for the configuration of the execution.  The execution record
\* is not the engine's.
NewEngine ==
    /\ outgoing_edges' = <<>>
    /\ node_results' = <<>>
    /\ completed_nodes' = {}
    /\ failed_nodes' = {}
    /\ running_tasks' = <<>>
    /\ execution_summary' = None
    /\ callbacks' = <<>>
    /\ pc' = "config"
    /\ error' = ""
    /\ start_idx' = 0
    /\ invocations' = [i \in DOMAIN nodes |-> 0]
    /\ dispatched' = <<>>
    /\ executor_raised' = {}
    /\ callback_errors' = <<>>
    /\ cancelled_at' = None
    /\ UNCHANGED <<nodes, edges, result_data, node_counters>>

\* _update_execution_status(RUNNING) returns; the engine is created
BackgroundSetRunning ==
    /\ bg_pc = "set_running"
    /\ ~MustCancel
    /\ execution_status' = "RUNNING"
    /\ bg_pc' = "engine"
    /\ NewEngine
    /\ UNCHANGED <<callback_raises, error_message, task_manager, tasks, start_calls,
                   cancel_calls, registry_log,
                   call, returned>>

\* a step of TreeWorkflowEngine(...) or of engine.execute_workflow() inside
\* the background task; a step that resumes from an await is taken only when
\* no cancellation is requested
EngineStep ==
    /\ bg_pc = "engine"
    /\ ~(EngineSuspended /\ MustCancel)
    /\ Next

\* execute_workflow returned the summary: the coroutine returns
BackgroundReturns ==
    /\ bg_pc = "engine"
    /\ pc = "returned"
    /\ TaskBecomes("finished")
    /\ bg_pc' = "done"
    /\ UNCHANGED <<engine_vars, execution_status, callback_raises, error_message,
                   task_manager,
                   start_calls, cancel_calls, registry_log, cancelled_at,
                   call, returned>>

\* the constructor or execute_workflow raised: the except clauses of
\* _execute_workflow_background, asyncio.CancelledError first, then Exception
BackgroundExcept ==
    /\ bg_pc = "engine"
    /\ pc \in {"raised", "rejected"}
    /\ IF Catches("CancelledError", error)
       THEN bg_pc' = "cancelled_handler" /\ UNCHANGED tasks
       ELSE IF Catches("Exception", error)
       THEN bg_pc' = "failed_handler" /\ UNCHANGED tasks
       ELSE TaskBecomes("failed") /\ bg_pc' = "done"
    /\ UNCHANGED <<engine_vars, execution_status, callback_raises, error_message,
                   task_manager,
                   start_calls, cancel_calls, registry_log, cancelled_at,
                   call, returned>>

\* except Exception: _update_execution_status(FAILED) returns, the coroutine
\* returns
BackgroundFailedHandler ==
    /\ bg_pc = "failed_handler"
    /\ ~MustCancel
    /\ execution_status' = "FAILED"
    /\ error_message' = Some(error)
    /\ TaskBecomes("finished")
    /\ bg_pc' = "done"
    /\ UNCHANGED <<engine_vars, callback_raises, task_manager, start_calls,
                   cancel_calls, registry_log, cancelled_at,
                   call, returned>>

\* except asyncio.CancelledError: _update_execution_status(CANCELLED)
\* returns, CancelledError is raised again
BackgroundCancelledHandler ==
    /\ bg_pc = "cancelled_handler"
    /\ ~MustCancel
    /\ execution_status' = "CANCELLED"
    /\ TaskBecomes("cancelled")
    /\ bg_pc' = "done"
    /\ UNCHANGED <<engine_vars, callback_raises, error_message, task_manager,
                   start_calls,
                   cancel_calls, registry_log, cancelled_at,
                   call, returned>>

\* The engine state when CancelledError is thrown into execute_workflow:
\* the position, the START node whose executor is in flight (or 0), the node
\* tasks running, and what had been recorded and delivered.
CancelSnapshot ==
    [pc |-> pc,
     node |-> IF pc = "seed_await" THEN StartNodes[start_idx] ELSE 0,
     running |-> running_tasks,
     completed |-> completed_nodes,
     failed |-> failed_nodes,
     results |-> node_results,
     callbacks |-> callbacks,
     result_data |-> result_data,
     dispatched |-> dispatched,
     invocations |-> invocations]

\* CancelledError is thrown into execute_workflow at the await it is
\* suspended in.  Nothing catches it around the executor of a START node or
\* around the sleep of the event loop; around a tracking callback there is
\* `except Exception`, in the callback and in the engine.  The update of the
\* record a callback was awaiting is committed or not.
ThrowCancelledIntoEngine ==
    /\ bg_pc = "engine"
    /\ EngineSuspended
    /\ MustCancel
    /\ tasks' = [tasks EXCEPT ![CurrentTask].must_cancel = FALSE]
    /\ cancelled_at' = IF cancelled_at = None THEN Some(CancelSnapshot)
                       ELSE cancelled_at
    /\ IF pc \in {"seed_callback", "finished_callback"}
          /\ Catches("Exception", "CancelledError")
       THEN UNCHANGED <<pc, error, result_data, node_counters,
                         execution_status>>
       ELSE /\ pc' = "raised"
            /\ error' = "CancelledError"
            /\ \E committed \in BOOLEAN :
                 IF ~committed \/ pc \in {"seed_await", "loop"}
                 THEN UNCHANGED <<result_data, node_counters,
                                  execution_status>>
                 ELSE IF pc = "seed_callback"
                 THEN /\ result_data' =
                           UpdateNodeResult(result_data, StartNodes[start_idx],
                               node_results[StartNodes[start_idx]], TRUE)
                      /\ node_counters' = UpdateNodeCounters(node_counters, TRUE)
                      /\ UNCHANGED execution_status
                 ELSE /\ result_data' = SummaryResultData(execution_summary[1])
                      /\ UNCHANGED node_counters
                      /\ execution_status' =
                           IF IsComplete(execution_summary[1])
                           THEN "COMPLETED" ELSE "FAILED"
    /\ UNCHANGED <<nodes, edges, outgoing_edges, node_results, completed_nodes,
                   failed_nodes, running_tasks, execution_summary, callbacks,
                   start_idx, invocations, dispatched, executor_raised,
                   callback_errors, callback_raises, error_message,
                   task_manager, bg_pc,
                   start_calls, cancel_calls, registry_log,
                   call, returned>>

\* CancelledError is thrown into an await of _update_execution_status in
\* _execute_workflow_background: the update is committed or not.  In the try
\* block the except asyncio.CancelledError clause handles it; in an except
\* clause it ends the task.
ThrowCancelledIntoUpdate ==
    /\ bg_pc \in {"set_running", "failed_handler", "cancelled_handler"}
    /\ MustCancel
    /\ \E committed \in BOOLEAN :
         /\ execution_status' =
               IF ~committed THEN execution_status
               ELSE IF bg_pc = "set_running" THEN "RUNNING"
               ELSE IF bg_pc = "failed_handler" THEN "FAILED"
               ELSE "CANCELLED"
         /\ error_message' =
               IF committed /\ bg_pc = "failed_handler" THEN Some(error)
               ELSE error_message
    /\ IF bg_pc = "set_running" /\ Catches("CancelledError", "CancelledError")
       THEN /\ bg_pc' = "cancelled_handler"
            /\ tasks' = [tasks EXCEPT ![CurrentTask].must_cancel = FALSE]
       ELSE /\ bg_pc' = "done"
            /\ TaskBecomes("cancelled")
    /\ UNCHANGED <<engine_vars, callback_raises, task_manager, start_calls,
                   cancel_calls, registry_log, cancelled_at,
                   call, returned>>

NextService ==
    \/ StartRequest
    \/ StartCheck
    \/ CancelRequest
    \/ CancelCheck
    \/ CancelUpdate
    \/ BackgroundFirstStep
    \/ BackgroundSetRunning
    \/ EngineStep
    \/ BackgroundReturns
    \/ BackgroundExcept
    \/ BackgroundFailedHandler
    \/ BackgroundCancelledHandler
    \/ ThrowCancelledIntoEngine
    \/ ThrowCancelledIntoUpdate
    \/ TaskDoneCallback

SpecService == InitService /\ [][NextService]_vars

\* ------------------------------------------------------------ functions
\* Calls of functions of the engine on their own, with inputs drawn from
\* bounded sets.
\* The engine and the service of such a call: one START node, no request.
NoRun == InitConfig(1, {1}, <<>>, FALSE) /\ NoRequest

\* The call returns or raises.
Returns(outcome) ==
    /\ returned = None
    /\ returned' = Some(outcome)
    /\ UNCHANGED <<engine_vars, execution_status, callback_raises,
                   error_message, task_manager, tasks, bg_pc, start_calls,
                   cancel_calls, registry_log, cancelled_at, call>>

\* Conditions of every kind: known and unknown match_target and match_type,
\* a plain match_value, one with a blank, one re.compile rejects, and one
\* with a repetition number that is too large.
TestConditions ==
    [match_target : {"node_output", "node_input"},
     match_type : {"contains", "not_contains", "fuzzy", "regex", "equals"},
     match_value : { <<"o", "k">>, <<"O", " ", "K">>, <<"(", "o">>,
                     <<"o", "{", "9", "9", "9", "9", "9", "9", "9", "9", "9",
                       "9", "9", "}">> },
     case_sensitive : BOOLEAN]

TestOutputs == Outputs \cup { <<"O", "K">>, <<"(", "o", " ", "k">> }

InitCondition ==
    /\ NoRun
    /\ returned = None
    /\ \E condition \in {None} \cup {Some(c) : c \in TestConditions} :
         \E node_output \in TestOutputs :
           call = Some([op |-> "condition_checker", condition |-> condition,
                        node_output |-> node_output])

\* self.condition_checker(condition, node_output)
ApplyConditionChecker ==
    /\ call # None
    /\ call[1].op = "condition_checker"
    /\ Returns(IF ConditionCheckerRaises(call[1].condition, call[1].node_output)
               THEN [raised |-> TRUE, error |-> "OverflowError", value |-> FALSE]
               ELSE [raised |-> FALSE, error |-> "",
                     value |-> ConditionChecker(call[1].condition,
                                                call[1].node_output)])

SpecCondition == InitCondition /\ [][ApplyConditionChecker]_vars

\* The summaries with counts up to MaxCount, with and without error_message.
TestSummaries ==
    { [completed_count |-> c, failed_count |-> f, skipped_count |-> k,
       total_count |-> c + f + k, results |-> <<>>, error_message |-> e] :
          c \in 0..MaxCount, f \in 0..MaxCount, k \in 0..MaxCount,
          e \in {None, Some(ErrorText)} }

InitSummary ==
    /\ NoRun
    /\ returned = None
    /\ \E summary \in TestSummaries :
         call = Some([op |-> "summary_status", summary |-> summary])

\* summary.is_complete and summary.is_failed are read
ApplySummaryStatus ==
    /\ call # None
    /\ call[1].op = "summary_status"
    /\ Returns([is_complete |-> IsComplete(call[1].summary),
                is_failed |-> IsFailed(call[1].summary)])

SpecSummary == InitSummary /\ [][ApplySummaryStatus]_vars


\* ------------------------------------------------------------ properties
\* Vocabulary of the properties below.
EdgeIndexes == 1..Len(edges)
IncomingOf(v) == {k \in EdgeIndexes : edges[k].to_node = v}
PredecessorsOf(v) == {edges[k].from_node : k \in IncomingOf(v)}
IsStart(v) == nodes[v].node_type = "start"
Ended == pc \in {"returned", "raised"}
WasDispatched(v) == \E k \in 1..Len(dispatched) : dispatched[k].node = v
WasStarted(v) == invocations[v] > 0
IsTerminal(u) == GetNodeStatus(u) \in {"completed", "failed"}
Delivered(name, v) == InSeq(Callback(name, v), callbacks)

\* The edge fires on the recorded output of its source.
EdgeFires(k) ==
    /\ edges[k].from_node \in DOMAIN node_results
    /\ \/ edges[k].condition = None
       \/ Check(edges[k].condition[1], node_results[edges[k].from_node])

\* Every endpoint of every edge is a node of the configuration.
WellFormedEndpoints ==
    \A k \in EdgeIndexes :
        edges[k].from_node \in DOMAIN nodes /\ edges[k].to_node \in DOMAIN nodes

SuccessorsOf(S) == {edges[k].to_node : k \in {j \in EdgeIndexes : edges[j].from_node \in S}}

RECURSIVE Closure(_)
Closure(S) == LET T == S \cup SuccessorsOf(S) IN IF T = S THEN S ELSE Closure(T)

\* The nodes reached from x along one edge or more.
ReachableFrom(x) == Closure(SuccessorsOf({x}))

\* The edges hold a directed cycle.
HasDirectedCycle ==
    \E k \in EdgeIndexes : edges[k].from_node \in ReachableFrom(edges[k].from_node)

\* A well-formed graph: defined endpoints, no cycle, a START node, and every
\* node a START node or reachable from one.
WellFormedGraph ==
    /\ WellFormedEndpoints
    /\ ~HasDirectedCycle
    /\ \E s \in DOMAIN nodes : IsStart(s)
    /\ \A v \in DOMAIN nodes :
          IsStart(v) \/ \E s \in DOMAIN nodes : IsStart(s) /\ v \in ReachableFrom(s)

\* C1 as stated: for every edge u -> v between nodes of the workflow, the
\* executor of v (START nodes included) has been started only if u is in a
\* terminal state.
C1_PredecessorTerminalBeforeStart ==
    \A k \in EdgeIndexes :
        LET u == edges[k].from_node
            v == edges[k].to_node
        IN (u \in DOMAIN nodes /\ v \in DOMAIN nodes /\ WasStarted(v))
              => IsTerminal(u)

\* C1: for every edge u -> v whose target v is not a START node, v has been
\* dispatched (or its executor started) only if u is a node in a terminal
\* state.
C1_NonStartWaitsForPredecessors ==
    \A k \in EdgeIndexes :
        LET u == edges[k].from_node
            v == edges[k].to_node
        IN (v \in DOMAIN nodes /\ ~IsStart(v) /\ (WasDispatched(v) \/ WasStarted(v)))
              => (u \in DOMAIN nodes /\ IsTerminal(u))

\* C1 witness: a non-START node with two direct predecessors was dispatched.
C1_Witness ==
    \E k \in 1..Len(dispatched) :
        /\ ~IsStart(dispatched[k].node)
        /\ Cardinality(PredecessorsOf(dispatched[k].node)) = 2

\* C2: when execute_workflow has returned, every node all of whose direct
\* predecessors completed and one of whose incoming edges fires on its
\* source's output has been dispatched (whichever predecessor completed last).
C2_DispatchedIfSomeEdgeFires ==
    pc = "returned" =>
        \A v \in DOMAIN nodes :
            ( /\ IncomingOf(v) # {}
              /\ PredecessorsOf(v) \subseteq completed_nodes
              /\ \E k \in IncomingOf(v) : EdgeFires(k) )
            => (WasDispatched(v) \/ WasStarted(v))

\* C3: a non-START node that was dispatched (or executed) has an incoming
\* edge whose source is completed and whose condition, if any, is true on the
\* source's recorded output.
C3_DispatchHasFiringCompletedEdge ==
    \A v \in DOMAIN nodes :
        (~IsStart(v) /\ (WasDispatched(v) \/ WasStarted(v)))
            => \E k \in IncomingOf(v) :
                   edges[k].from_node \in completed_nodes /\ EdgeFires(k)

\* C3 witness: a non-START node was dispatched through a conditional edge.
C3_Witness ==
    \E k \in 1..Len(dispatched) :
        /\ ~IsStart(dispatched[k].node)
        /\ dispatched[k].edge.condition # None

\* C4: the executor is invoked at most once for each node; a dispatch is only
\* ever decided for a node that is pending (not running, completed or failed),
\* and never twice for the same node.
C4_AtMostOneInvocation ==
    /\ \A v \in DOMAIN nodes : invocations[v] <= 1
    /\ \A k \in 1..Len(dispatched) : dispatched[k].status = "pending"
    /\ \A j, k \in 1..Len(dispatched) :
          dispatched[j].node = dispatched[k].node => j = k

\* C4 witness: execution returned although an edge that fires leads from a
\* completed node to a node that had completed before it: the re-dispatch was
\* refused.
C4_Witness ==
    /\ pc = "returned"
    /\ \E k \in EdgeIndexes :
          /\ edges[k].to_node \in completed_nodes
          /\ edges[k].from_node \in completed_nodes
          /\ edges[k].to_node < edges[k].from_node
          /\ EdgeFires(k)
          /\ invocations[edges[k].to_node] = 1

\* C5: a node whose executor raised is in failed, on_node_failed was
\* delivered for it, execute_workflow has not raised, and once the execution
\* has ended every START node that does not depend on it is completed.
C5_ExecutorErrorIsNodeFailure ==
    \A f \in executor_raised :
        /\ f \in failed_nodes
        /\ Delivered("on_node_failed", f)
        /\ pc # "raised"
        /\ Ended => \A s \in DOMAIN nodes :
                       (IsStart(s) /\ s # f /\ s \notin ReachableFrom(f))
                           => s \in completed_nodes

\* C6: once the execution has ended, a node with a direct predecessor whose
\* executor raised was never dispatched and is counted as skipped in the
\* final summary, and the START nodes that do not depend on the failed node
\* are completed.
C6_FailedPredecessorSkips ==
    Ended =>
        \A v \in DOMAIN nodes :
            \A f \in PredecessorsOf(v) \cap executor_raised :
                /\ ~WasDispatched(v) /\ ~WasStarted(v)
                /\ execution_summary # None
                /\ execution_summary[1].skipped_count >= 1
                /\ \A s \in DOMAIN nodes :
                      (IsStart(s) /\ s # f /\ s \notin ReachableFrom(f))
                          => s \in completed_nodes

\* C7: once an execution in which a node executor raised has ended, there is
\* a final summary whose failed_count is the number of failed nodes (> 0),
\* with is_failed true and is_complete false.
C7_FailureIsReported ==
    (Ended /\ executor_raised # {}) =>
        /\ execution_summary # None
        /\ execution_summary[1].failed_count = Cardinality(executor_raised)
        /\ IsFailed(execution_summary[1])
        /\ ~IsComplete(execution_summary[1])

\* C8: when the execution of a well-formed graph has returned, every node is
\* accounted for: total_count = completed_count + failed_count +
\* skipped_count (no node is cancelled in an execution that returns), with
\* completed_count and failed_count the sizes of the completed and failed sets.
C8_CountsAddUp ==
    (pc = "returned" /\ WellFormedGraph) =>
        LET summary == execution_summary[1]
        IN /\ summary.completed_count = Cardinality(completed_nodes)
           /\ summary.failed_count = Cardinality(failed_nodes)
           /\ summary.total_count =
                 summary.completed_count + summary.failed_count
                     + summary.skipped_count

\* C9: the execution of an acyclic workflow with a START node never stops
\* short of returning, even when no node executor raises: either
\* execute_workflow has returned, with no task running and
\* on_execution_finished the last callback delivered, or a step of it is
\* still to come.
C9_ExecuteWorkflowReturns ==
    (pc # "rejected" /\ error # "ValueError" /\ executor_raised = {}) =>
        \/ ENABLED Next
        \/ /\ pc = "returned"
           /\ running_tasks = <<>>
           /\ callbacks # <<>>
           /\ callbacks[Len(callbacks)] = Callback("on_execution_finished", 0)

C11_CallbackBeforeSuccessorStarts ==
    \A k \in EdgeIndexes :
        LET u == edges[k].from_node
            v == edges[k].to_node
        IN (u \in DOMAIN nodes /\ v \in DOMAIN nodes /\ WasStarted(v))
              => (Delivered("on_node_completed", u) \/ Delivered("on_node_failed", u))

\* C11: when a node that is not a START node is dispatched, on_node_completed
\* or on_node_failed has been delivered (and has ended) for every direct
\* predecessor of it; and the executor of such a node starts only by a
\* dispatch.
C11_CallbackBeforeNonStartSuccessor ==
    /\ \A k \in 1..Len(dispatched) :
          LET v == dispatched[k].node
          IN ~IsStart(v) =>
               \A u \in PredecessorsOf(v) :
                  \/ InSeq(Callback("on_node_completed", u), dispatched[k].delivered)
                  \/ InSeq(Callback("on_node_failed", u), dispatched[k].delivered)
    /\ \A v \in DOMAIN nodes : (~IsStart(v) /\ WasStarted(v)) => WasDispatched(v)

\* C11 witness: a node that is not a START node was dispatched after the
\* callbacks of its two direct predecessors.
C11_Witness ==
    \E k \in 1..Len(dispatched) :
        /\ ~IsStart(dispatched[k].node)
        /\ Cardinality(PredecessorsOf(dispatched[k].node)) = 2
        /\ Len(dispatched[k].delivered) >= 3

\* C12: when an execution that found a START node and in which no executor
\* raised has ended, on_execution_start was the first callback delivered and
\* on_execution_finished was delivered exactly once, as the last one.
C12_StartFirstFinishedOnceLast ==
    (Ended /\ error # "ValueError" /\ executor_raised = {}) =>
        /\ callbacks # <<>>
        /\ callbacks[1] = Callback("on_execution_start", 0)
        /\ \A k \in 2..Len(callbacks) : callbacks[k].name # "on_execution_start"
        /\ callbacks[Len(callbacks)] = Callback("on_execution_finished", 0)
        /\ \A k \in 1..(Len(callbacks) - 1) :
              callbacks[k].name # "on_execution_finished"

\* C13: a step in which a tracking callback raises goes on as if the callback
\* had returned: after on_execution_start the seed loop begins; after
\* on_node_completed of a START node the node states, results and dispatch
\* decisions are those of the same step with a callback that returns; after
\* on_execution_finished the summary is returned unchanged; and such a step
\* ends the execution with an error only when its dispatch raises.
C13_CallbackErrorIsSwallowed ==
    [][ Len(callback_errors') > Len(callback_errors) =>
          LET c == callback_errors'[Len(callback_errors')]
          IN /\ pc' = "raised" =>
                   (Len(dispatched') > Len(dispatched) /\ error' = "AttributeError")
             /\ c.name = "on_execution_start" => pc' = "seed"
             /\ (c.name = "on_node_completed" /\ pc = "seed_callback") =>
                   LET normal == TryTriggerNextNodes(c.node,
                                    CallNodeCallback(EngineState, "on_node_completed",
                                                     c.node, FALSE))
                   IN /\ completed_nodes' = normal.completed
                      /\ failed_nodes' = normal.failed
                      /\ node_results' = normal.results
                      /\ running_tasks' = normal.running
                      /\ dispatched' = normal.dispatched
                      /\ (pc' = "raised") = normal.raised
             /\ c.name = "on_execution_finished" =>
                   /\ pc' = "returned"
                   /\ execution_summary' = execution_summary
                   /\ node_results' = node_results
      ]_vars

\* C13 witness: execute_workflow returned its summary although
\* on_execution_start, on_node_completed and on_execution_finished all raised.
C13_Witness ==
    /\ pc = "returned"
    /\ execution_summary # None
    /\ InSeq(Callback("on_execution_start", 0), callback_errors)
    /\ InSeq(Callback("on_execution_finished", 0), callback_errors)
    /\ \E k \in 1..Len(callback_errors) : callback_errors[k].name = "on_node_completed"

\* Vocabulary of the cancellation properties: the background run was
\* cancelled inside execute_workflow and its task is done.
CancelledRunEnded == cancelled_at # None /\ bg_pc = "done"
\* The record of node n in a result_data value, or None.
RecordOf(data, n) ==
    IF data # None /\ n \in DOMAIN data[1] THEN Some(data[1][n]) ELSE None
\* Node n was recorded by the engine, or reported through a callback or in
\* the execution record since the cancellation.
NodeReported(n) ==
    \/ n \in DOMAIN node_results
    \/ n \in completed_nodes \cup failed_nodes
    \/ Delivered("on_node_completed", n)
    \/ Delivered("on_node_failed", n)
    \/ RecordOf(result_data, n) # RecordOf(cancelled_at[1].result_data, n)

C15_CancelledRunEmitsFinished ==
    CancelledRunEnded =>
        /\ execution_summary # None
        /\ execution_summary[1].error_message =
              Some(<<"c", "a", "n", "c", "e", "l", "l", "e", "d">>)
        /\ Delivered("on_execution_finished", 0)
        /\ execution_status = "CANCELLED"

\* C16: when a run that was cancelled inside execute_workflow has ended, the
\* result of every node that had completed and been reported before the
\* cancellation is in the final summary and in the persisted result_data.
C16_CancelKeepsCompletedResults ==
    CancelledRunEnded =>
        \A n \in cancelled_at[1].completed :
            InSeq(Callback("on_node_completed", n), cancelled_at[1].callbacks) =>
                /\ execution_summary # None
                /\ n \in DOMAIN execution_summary[1].results
                /\ execution_summary[1].results[n] = cancelled_at[1].results[n]
                /\ result_data # None
                /\ n \in DOMAIN result_data[1]
                /\ result_data[1][n].result = cancelled_at[1].results[n]

\* C17: a cancel_task for a run whose cancellation was already requested, or
\* whose task is done, returns false and changes neither the registry nor a
\* task; and a cancel_execution that reads a terminal status only reports
\* the error.
C17_SecondCancelIsNoOp ==
    /\ \A k \in 1..Len(registry_log) :
          ( /\ registry_log[k].op = "cancel_task"
            /\ registry_log[k].cancel_requested \/ ~registry_log[k].live )
          => (~registry_log[k].result /\ ~registry_log[k].changed)
    /\ \A j \in 1..Len(cancel_calls) :
          ( /\ cancel_calls[j].pc = "done"
            /\ cancel_calls[j].status \notin {"PENDING", "RUNNING"} )
          => cancel_calls[j].result = "400"

\* Vocabulary of the registry properties.
TaskDone(t) == t \in 1..Len(tasks) /\ tasks[t].state # "pending"
RegisteredTask(t) == \E e \in DOMAIN task_manager : task_manager[e] = t

\* C18: every task that is not done is the one registered for its execution
\* id, so there is at most one run per execution id; a start_task for an id
\* that has an entry returns without creating a task and leaves the registry
\* and the tasks unchanged, and a start_task for an id without entry starts
\* one.
C18_OneRunPerExecution ==
    /\ \A t \in 1..Len(tasks) :
          tasks[t].state = "pending" =>
              /\ IsRunning(task_manager, tasks[t].execution_id)
              /\ task_manager[tasks[t].execution_id] = t
    /\ \A k \in 1..Len(registry_log) :
          registry_log[k].op = "start_task" =>
              /\ registry_log[k].registered =>
                    (~registry_log[k].result /\ ~registry_log[k].changed)
              /\ ~registry_log[k].registered => registry_log[k].result

\* C18 witness: start_task was called for an id whose run was live, and the
\* task registered for the id is still the first one created for it.
C18_Witness ==
    \E k \in 1..Len(registry_log) :
        /\ registry_log[k].op = "start_task"
        /\ registry_log[k].live
        /\ IsRunning(task_manager, registry_log[k].execution_id)
        /\ task_manager[registry_log[k].execution_id] = registry_log[k].task

\* C19: every call of cancel_task returned true exactly when a run that had
\* not finished was registered for the id at the time of the call; a call
\* that returned false changed nothing.
C19_CancelTrueIffLiveRun ==
    \A k \in 1..Len(registry_log) :
        registry_log[k].op = "cancel_task" =>
            /\ registry_log[k].result <=> registry_log[k].live
            /\ ~registry_log[k].result => ~registry_log[k].changed

TerminalStatuses == {"COMPLETED", "FAILED", "CANCELLED"}
\* cancel_execution call j returned True after cancel_task had found the run
\* of the execution registered.
CancelAccepted(j) ==
    /\ cancel_calls[j].pc = "done"
    /\ cancel_calls[j].result = "True"
    /\ cancel_calls[j].cancelled

\* C21: once a cancel_execution whose cancel_task found the run registered
\* has returned True, the persisted status is CANCELLED, COMPLETED or FAILED.
C21_AcceptedCancelStaysTerminal ==
    (\E j \in 1..Len(cancel_calls) : CancelAccepted(j))
        => execution_status \in TerminalStatuses

\* C21 witness: a cancel was accepted while the engine of the run was
\* executing, and the run has ended cancelled.
C21_Witness ==
    /\ \E j \in 1..Len(cancel_calls) : CancelAccepted(j)
    /\ CancelledRunEnded
    /\ tasks[CurrentTask].state = "cancelled"
    /\ execution_status = "CANCELLED"

\* C22: the persisted counters are never negative and completed_nodes +
\* failed_nodes never exceeds total_nodes.
C22_CountersWithinTotal ==
    /\ node_counters.completed_nodes >= 0
    /\ node_counters.failed_nodes >= 0
    /\ node_counters.completed_nodes + node_counters.failed_nodes
          <= node_counters.total_nodes

\* C22 witness: on_node_completed has counted every node of a workflow of
\* two nodes.
C22_Witness ==
    /\ node_counters.total_nodes = 2
    /\ node_counters.completed_nodes = 2
    /\ Delivered("on_node_completed", 1)
    /\ Delivered("on_node_completed", 2)

\* C23: the execution starts PENDING; start_task is called only by a start
\* request that read the status PENDING and found no registry entry; and the
\* persisted status changes only from PENDING to RUNNING (or, cancelled
\* before it ran, to CANCELLED), from RUNNING to COMPLETED, FAILED or
\* CANCELLED, and never again once it is one of these.  Stated for the
\* cancel requests whose cancel_task found the run registered.
C23_StatusLifecycle ==
    [][ (\A j \in 1..Len(cancel_calls') :
            cancel_calls'[j].pc \in {"update", "done"}
                /\ cancel_calls'[j].result # "400" => cancel_calls'[j].cancelled)
        =>
        /\ \A i \in 1..Len(start_calls') :
              start_calls'[i].result = "started" =>
                  /\ start_calls'[i].status = "PENDING"
                  /\ \E k \in 1..Len(registry_log') :
                        /\ registry_log'[k].op = "start_task"
                        /\ ~registry_log'[k].registered
                        /\ registry_log'[k].result
        /\ execution_status = "PENDING" =>
              execution_status' \in {"PENDING", "RUNNING", "CANCELLED"}
        /\ execution_status = "RUNNING" =>
              execution_status' \in {"RUNNING"} \cup TerminalStatuses
        /\ execution_status \in TerminalStatuses =>
              execution_status' = execution_status ]_vars

\* Vocabulary: the nodes that are neither START nodes nor reached from one.
UnreachableNodes ==
    {v \in DOMAIN nodes :
        ~IsStart(v) /\ ~\E s \in DOMAIN nodes : IsStart(s) /\ v \in ReachableFrom(s)}

\* C24: a configuration without cycle or undefined endpoint that has
\* unreachable nodes is not rejected at construction; no unreachable node is
\* ever executed; and when execute_workflow has returned, skipped_count of
\* the summary counts them.
C24_UnreachableNodesSkipped ==
    (WellFormedEndpoints /\ ~HasDirectedCycle /\ UnreachableNodes # {}) =>
        /\ pc # "rejected"
        /\ \A v \in UnreachableNodes :
              invocations[v] = 0 /\ v \notin DOMAIN node_results
        /\ pc = "returned" =>
              execution_summary[1].skipped_count >= Cardinality(UnreachableNodes)

\* C25: a configuration with no START node, or with an edge one of whose
\* endpoints is not a node, gets no further than an error of construction
\* or of the START check that opens execute_workflow: no node is executed
\* and no callback is delivered for it.
C25_InvalidConfigurationRejected ==
    ( /\ (\A v \in DOMAIN nodes : ~IsStart(v)) \/ ~WellFormedEndpoints
      /\ pc \notin {"config", "constructed"} )
    => /\ pc \in {"rejected", "raised"}
       /\ error \in {"TreeCycleError", "KeyError", "ValueError"}
       /\ callbacks = <<>>
       /\ \A v \in DOMAIN nodes : invocations[v] = 0

\* Vocabulary: _try_trigger_next_nodes raised, the error being neither an
\* executor's nor a callback's.
DispatcherRaised == pc = "raised" /\ error = "AttributeError"

\* C26: an execution whose dispatcher raised is never persisted as
\* COMPLETED, and when its run has ended with no cancel request made, its
\* persisted status is FAILED with error_message set, and a summary with
\* error_message set and is_failed true has been emitted for it.
C26_DispatcherErrorEmitsFailedOutcome ==
    DispatcherRaised =>
        /\ execution_status # "COMPLETED"
        /\ (bg_pc = "done" /\ cancel_calls = <<>>) =>
              /\ execution_status = "FAILED"
              /\ error_message # None
              /\ execution_summary # None
              /\ execution_summary[1].error_message # None
              /\ IsFailed(execution_summary[1])
              /\ Delivered("on_execution_finished", 0)

\* C27: a call of the condition checker changes nothing of the execution
\* state and does not raise; it returns true for a missing condition, and
\* false for an unknown match_target, for an unknown match_type and for a
\* regex pattern that does not compile.
C27_ConditionCheckIsTotal ==
    [][ /\ engine_vars' = engine_vars
        /\ returned' # None =>
              LET outcome == returned'[1]
                  condition == call[1].condition
              IN /\ ~outcome.raised
                 /\ condition = None => outcome.value
                 /\ (condition # None /\ condition[1].match_target # "node_output")
                       => ~outcome.value
                 /\ (condition # None /\ condition[1].match_type \notin
                         {"contains", "not_contains", "fuzzy", "regex"})
                       => ~outcome.value
                 /\ ( /\ condition # None
                      /\ condition[1].match_type = "regex"
                      /\ \/ InvalidRegex(condition[1].match_value)
                         \/ CompileOverflows(condition[1].match_value) )
                       => ~outcome.value ]_vars

\* C28: is_complete of a summary holds exactly when failed_count = 0,
\* error_message is absent and completed_count > 0; is_failed holds exactly
\* when failed_count > 0 or error_message is present; they are never both
\* true, and both are what they are for the same summary without skipped
\* nodes.
C28_SummaryStatus ==
    returned # None =>
        LET summary == call[1].summary
            unskipped == [summary EXCEPT !.skipped_count = 0]
        IN /\ returned[1].is_complete <=>
                 ( /\ summary.failed_count = 0
                   /\ summary.error_message = None
                   /\ summary.completed_count > 0 )
           /\ returned[1].is_failed <=>
                 (summary.failed_count > 0 \/ summary.error_message # None)
           /\ ~(returned[1].is_complete /\ returned[1].is_failed)
           /\ returned[1].is_complete = IsComplete(unskipped)
           /\ returned[1].is_failed = IsFailed(unskipped)

\* C28 witness: a summary with completed and skipped nodes, no failed node
\* and an error message is failed and not complete.
C28_Witness ==
    /\ returned # None
    /\ call[1].summary.completed_count > 0
    /\ call[1].summary.skipped_count > 0
    /\ call[1].summary.failed_count = 0
    /\ call[1].summary.error_message # None
    /\ returned[1].is_failed
    /\ ~returned[1].is_complete

\* Vocabulary: the direct predecessors of v in the order of their first
\* edge into v, and the text the claim gives for their outputs.
RECURSIVE FirstSeen(_, _, _)
FirstSeen(v, k, seen) ==
    IF k > Len(edges) THEN <<>>
    ELSE IF edges[k].to_node = v /\ edges[k].from_node \notin seen
         THEN <<edges[k].from_node>>
                  \o FirstSeen(v, k + 1, seen \cup {edges[k].from_node})
         ELSE FirstSeen(v, k + 1, seen)
RECURSIVE Labelled(_)
Labelled(ids) ==
    IF ids = <<>> THEN <<>>
    ELSE <<"[">> \o nodes[Head(ids)].name \o <<"]", ":", " ">>
             \o node_results[Head(ids)]
             \o (IF Tail(ids) = <<>> THEN <<>>
                 ELSE <<" ", "|", " ">> \o Labelled(Tail(ids)))
ExpectedPreviousOutput(v) ==
    LET ids == FirstSeen(v, 1, {})
    IN IF Len(ids) = 1 THEN node_results[ids[1]] ELSE Labelled(ids)

\* C29: every node dispatched with include_previous_output set was given
\* the outputs of its direct predecessors, each once, in first-seen edge
\* order: the output itself for one predecessor, "[name]: output" parts
\* joined by " | " for several.
C29_PreviousOutputFromPredecessors ==
    \A k \in 1..Len(dispatched) :
        LET v == dispatched[k].node
        IN nodes[v].input_config.include_previous_output =>
              /\ ~dispatched[k].input.raised
              /\ dispatched[k].input.previous_output =
                    Some(ExpectedPreviousOutput(v))

\* C30: every dispatch of a node v assembles its input with v's own
\* input_config (prompt is v.prompt when include_prompt is set, absent
\* otherwise) and succeeds: the task of v is spawned and put into
\* running_tasks.
C30_DispatchUsesNodeInputConfig ==
    \A k \in 1..Len(dispatched) :
        LET v == dispatched[k].node
        IN /\ ~dispatched[k].input.raised
           /\ dispatched[k].input.prompt =
                 (IF nodes[v].input_config.include_prompt
                  THEN Some(nodes[v].prompt) ELSE None)
           /\ WasStarted(v)
           /\ IsTerminal(v) \/ InSeq(v, running_tasks)

\* Vocabulary: the edges from u to v, whatever their conditions.
ParallelEdges(u, v) ==
    {k \in EdgeIndexes : edges[k].from_node = u /\ edges[k].to_node = v}

\* C31: a node reached from its only predecessor through several edges with
\* the same endpoints is dispatched at most once, and the input assembled for
\* it holds the predecessor's output once: the output as it is, with no
\* "[name]: output | [name]: output" repetition.
C31_DuplicateEdgesAreOneEdge ==
    \A k \in 1..Len(dispatched) :
        LET v == dispatched[k].node
            u == dispatched[k].edge.from_node
        IN (Cardinality(ParallelEdges(u, v)) > 1 /\ PredecessorsOf(v) = {u}) =>
              /\ \A j \in 1..Len(dispatched) : dispatched[j].node = v => j = k
              /\ invocations[v] <= 1
              /\ ~dispatched[k].input.raised
              /\ dispatched[k].input.previous_output = Some(node_results[u])

\* C32: the status of a node changes only from pending to running and from
\* running to completed or failed: a step never changes the status of a
\* node that is completed or failed, and never makes a node completed or
\* failed that was not running.
C32_NodeStatusLifecycle ==
    [][ \A v \in DOMAIN nodes :
          LET before == GetNodeStatus(v)
              after == GetNodeStatus(v)'
          IN before # after =>
                /\ before \notin {"completed", "failed"}
                /\ before = "pending" => after = "running"
                /\ after \in {"completed", "failed"} => before = "running"
      ]_vars

C34_FinishKeepsNodeRecords ==
    (pc = "returned" /\ Delivered("on_execution_finished", 0)) =>
        \A n \in completed_nodes :
            Delivered("on_node_completed", n) =>
                RecordOf(result_data, n) =
                    Some([result |-> node_results[n], success |-> TRUE])

C37_FinishedStatusIsFinal ==
    [][ (execution_status \in {"COMPLETED", "FAILED"}) =>
            (execution_status' = execution_status)
      ]_vars

C39_CancelBeforeFirstStep ==
    /\ (bg_pc \in {"none", "created", "not_run"}) =>
          execution_status \in {"PENDING", "CANCELLED"}
    /\ (bg_pc = "not_run") =>
          /\ pc = "config"
          /\ \A v \in DOMAIN nodes : invocations[v] = 0
          /\ dispatched = <<>>
          /\ completed_nodes = {} /\ failed_nodes = {}
          /\ callbacks = <<>>
          /\ result_data = None
          /\ tasks[CurrentTask].state = "cancelled"
          /\ tasks[CurrentTask].cleaned => ~IsRunning(task_manager, TheExecution)
          /\ (\A j \in 1..Len(cancel_calls) : cancel_calls[j].pc = "done")
                => execution_status = "CANCELLED"

\* C39 witness: the task was cancelled before its first step, its done
\* callback has run, the cancel request has returned True, and the execution
\* is CANCELLED with no registry entry.
C39_Witness ==
    /\ bg_pc = "not_run"
    /\ tasks[CurrentTask].cleaned
    /\ ~IsRunning(task_manager, TheExecution)
    /\ \E j \in 1..Len(cancel_calls) : CancelAccepted(j)
    /\ \A j \in 1..Len(cancel_calls) : cancel_calls[j].pc = "done"
    /\ execution_status = "CANCELLED"

====
